---- MODULE Spec2Model ----
(***************************************************************************)
(* A model of the WhatsApp bot's webhook server (src/app.py) and of the    *)
(* result shaping of its intent extractor (src/ai_parser.py).              *)
(*                                                                         *)
(* State: the process-wide dictionaries conversations and                  *)
(* processed_messages, the conversation objects they refer to, the clock,  *)
(* and one request-handling thread per concurrent webhook request.  The    *)
(* Directory (Supabase), the extractor API, the Trigger and the Notifier   *)
(* are external: every answer they can give is an input of the step that   *)
(* receives it.                                                            *)
(***************************************************************************)
EXTENDS Integers, Sequences, FiniteSets, TLC

(* ------------------------------ bounds -------------------------------- *)

\* Messages received by the webhook in one behaviour.
MaxTurns == 3
\* Clock advances in one behaviour.
MaxTicks == 3
\* Turns a session has had before a behaviour of SpecHistory begins.
MaxPast == 10

(* ------------------------- program constants -------------------------- *)

CONVERSATION_TTL == 1800
DEDUP_TTL == 120
\* add_to_history keeps the last 20 entries.
HISTORY_LIMIT == 20

\* Python's None.
Null == "<None>"

\* Replies the code itself writes, in ASCII (the extractor's own reply is a
\* token).
RETRY_REPLY == "Hmm, something went wrong saving that. Could you try again?"
NOT_LINKED_REPLY == "I couldn't find an active report linked to this number. What email is the report under?"
NOT_FOUND_REPLY == "I couldn't find that subscription. It may already be inactive."
NO_REPORTS_REPLY == "No active reports found for that email."
API_ERROR_REPLY == "Sorry, I'm having a moment. Try again in a sec!"
BAD_JSON_REPLY == "I didn't quite get that. Could you try again?"
NO_REPLY_REPLY == "Something went wrong - could you try again?"
MANAGE_LINK == "manage-link"
LOOKUP_LINKS == "lookup-links"

\* ADMIN_PHONE is configured (non-empty), so feature requests are forwarded.
ADMIN_PHONE == "admin"

(* --------------------------- Python values ---------------------------- *)

\* A dict is a function whose domain is its set of keys.
EmptyDict == [k \in {} |-> Null]

\* d.get(k): None when the key is absent.
Get(d, k) == IF k \in DOMAIN d THEN d[k] ELSE Null

\* d[k] = v
Put(d, k, v) == [x \in DOMAIN d \cup {k} |-> IF x = k THEN v ELSE d[x]]

\* d.update(e): every key of e, null-valued ones included, overwrites d.
DictUpdate(d, e) ==
    [x \in DOMAIN d \cup DOMAIN e |-> IF x \in DOMAIN e THEN e[x] ELSE d[x]]

\* Truth value of a string-or-None: None and "" are falsy.
Truthy(v) == v # Null /\ v # ""

\* Truth value of a dict-or-None (None is modelled as the empty dict: the
\* code only ever tests `if data` before reading it).
DictTruthy(d) == DOMAIN d # {}

\* a or b
Or2(a, b) == IF Truthy(a) THEN a ELSE b

(* ------------------------------ strings ------------------------------- *)

\* The characters of the strings the model uses.
Chars(s) ==
    CASE s = "Tim"   -> <<"T", "i", "m">>
      [] s = "Danny" -> <<"D", "a", "n", "n", "y">>
      [] s = "Tim's" -> <<"T", "i", "m", "'", "s">>
      [] s = "Jake"  -> <<"J", "a", "k", "e">>
      [] s = "Jess"  -> <<"J", "e", "s", "s">>
      [] s = "Jessie" -> <<"J", "e", "s", "s", "i", "e">>
      [] s = "Jen"   -> <<"J", "e", "n">>
      [] OTHER       -> <<>>

\* str.lower(), character by character.
LowerChar(c) ==
    CASE c = "T" -> "t"
      [] c = "D" -> "d"
      [] c = "J" -> "j"
      [] OTHER   -> c

Lower(cs) == [i \in 1..Len(cs) |-> LowerChar(cs[i])]

\* str.rstrip(chars): drops every trailing character that is in chars.
RECURSIVE RStrip(_, _)
RStrip(cs, chars) ==
    IF cs # <<>> /\ cs[Len(cs)] \in chars
    THEN RStrip(SubSeq(cs, 1, Len(cs) - 1), chars)
    ELSE cs

\* a in b, for strings.
Contains(b, a) ==
    \E i \in 0..(Len(b) - Len(a)) : SubSeq(b, i + 1, i + Len(a)) = a

(* --------------------------- conversations ---------------------------- *)

\* The dict get_conversation creates.
NewConv(now) ==
    [history |-> <<>>, last_active |-> now, pending_data |-> EmptyDict]

\* An add_to_history that never drops an entry.
AddToHistory_Unbounded(conv, role, content) ==
    Put(conv, "history",
        Append(conv["history"], [role |-> role, content |-> content]))

\* add_to_history: append, then keep the last HISTORY_LIMIT entries.
AddToHistory(conv, role, content) ==
    LET h == Append(conv["history"], [role |-> role, content |-> content])
    IN  Put(conv, "history",
            IF Len(h) > HISTORY_LIMIT
            THEN SubSeq(h, Len(h) - HISTORY_LIMIT + 1, Len(h))
            ELSE h)

\* The accumulation loop of handle_message: non-null values overwrite.
MergeNonNull(pending, data) ==
    LET keys == {k \in DOMAIN data : data[k] # Null}
    IN  [x \in DOMAIN pending \cup keys |->
            IF x \in keys THEN data[x] ELSE pending[x]]

\* conv.get("known_kids"), with a missing key read as the empty list.
KnownKids(conv) ==
    IF "known_kids" \in DOMAIN conv THEN conv["known_kids"] ELSE <<>>

(* ------------------------- the intent extractor ----------------------- *)

\* What parse_message returns.  data None is the empty dict, needs None the
\* empty list, action None is Null.
Result(reply, action, data, needs) ==
    [reply |-> reply, action |-> action, data |-> data, needs |-> needs]

\* The messages parse_message sends to the API: the entries of
\* conversation_history in order, then the current message as a user entry.
Messages(user_message, conversation_history) ==
    conversation_history
        \o <<[role |-> "user", content |-> user_message]>>

\* parse_message, from the outcome of the API call:
\*   kind "json":  the reply text held a JSON object, obj (a dict with any of
\*                 the keys reply, action, data, needs);
\*   kind "raw":   json.loads failed on the text; start is the index of the
\*                 first "{" as raw.find returns it (-1: none), prefix the
\*                 stripped text before it, raw the whole text;
\*   kind "error": the API call raised (timeout, HTTP error, ...).
ParseMessage(api) ==
    CASE api.kind = "json" ->
            Result(IF "reply" \in DOMAIN api.obj
                   THEN api.obj["reply"] ELSE NO_REPLY_REPLY,
                   Get(api.obj, "action"),
                   IF "data" \in DOMAIN api.obj
                   THEN api.obj["data"] ELSE EmptyDict,
                   IF "needs" \in DOMAIN api.obj
                   THEN api.obj["needs"] ELSE <<>>)
      [] api.kind = "raw" ->
            LET clean == IF api.start > 0 THEN api.prefix ELSE api.raw
            IN  Result(IF clean # "" THEN clean ELSE BAD_JSON_REPLY,
                       Null, EmptyDict, <<>>)
      [] OTHER ->
            Result(API_ERROR_REPLY, Null, EmptyDict, <<>>)

(* ---------------------------- the Directory --------------------------- *)

\* The JSON body create_subscriber posts.
CreatePayload(data, phone) ==
    [name |-> data["name"],
     email |-> data["email"],
     parent_email |-> data["email"],
     color_theme |-> IF "color_theme" \in DOMAIN data
                     THEN data["color_theme"] ELSE "blue",
     favorite_athlete |-> IF "favorite_athlete" \in DOMAIN data
                          THEN data["favorite_athlete"] ELSE "",
     sports |-> IF "sports" \in DOMAIN data THEN data["sports"] ELSE <<>>,
     phone |-> phone,
     active |-> TRUE]

\* deactivate_subscriber's filter: email and name restrict it when truthy.
DeactivateFilter(email, name) ==
    [k \in {x \in {"email", "name"} :
               Truthy(IF x = "email" THEN email ELSE name)} |->
        IF k = "email" THEN email ELSE name]

(* -------------------------- target resolution ------------------------- *)

\* name_raw.lower().rstrip("'s").rstrip("'s")
NameMatch(name_raw) ==
    RStrip(RStrip(Lower(Chars(name_raw)), {"'", "s"}), {"'", "s"})

\* The first of the indices that passed the test of a for ... break loop,
\* 0 when none did.
FirstIndex(hits) ==
    IF hits = {} THEN 0
    ELSE CHOOSE i \in hits : \A j \in hits : i <= j

\* A resolution without the single-record fallback.
ResolveTarget_NoFallback(subs, name_raw) ==
    LET name_match == NameMatch(name_raw)
        Exact(s) == name_match # <<>> /\ Lower(Chars(s.name)) = name_match
        Partial(s) == \/ Contains(Lower(Chars(s.name)), name_match)
                      \/ Contains(name_match, Lower(Chars(s.name)))
        e == FirstIndex({i \in 1..Len(subs) : Exact(subs[i])})
    IN  IF e = 0 /\ name_match # <<>>
        THEN FirstIndex({i \in 1..Len(subs) : Partial(subs[i])})
        ELSE e

\* The index in subs of the update's target, 0 when there is none:
\* exact match, then contains in either direction, then the only record.
ResolveTarget(subs, name_raw) ==
    LET name_match == NameMatch(name_raw)
        Exact(s) == name_match # <<>> /\ Lower(Chars(s.name)) = name_match
        Partial(s) == \/ Contains(Lower(Chars(s.name)), name_match)
                      \/ Contains(name_match, Lower(Chars(s.name)))
        e == FirstIndex({i \in 1..Len(subs) : Exact(subs[i])})
        p == IF e = 0 /\ name_match # <<>>
             THEN FirstIndex({i \in 1..Len(subs) : Partial(subs[i])})
             ELSE e
    IN  IF p = 0 /\ Len(subs) = 1 THEN 1 ELSE p

(* ------------------- handle_message, after the parse ------------------ *)

\* The calls that change the Directory.
Mutating == {"create", "update", "deactivate"}

\* handle_message runs from one network call to the next.  A stretch of it
\* ends in one of three ways: it makes a call (op with its argument) and
\* waits for the answer, it returns the reply (a list of text parts), or an
\* exception leaves it.  conv is the conversation object as the stretch
\* left it.
NoCall == [op |-> "", arg |-> EmptyDict]

Calling(conv, reply, op, arg) ==
    [conv |-> conv, reply |-> reply, status |-> "call",
     call |-> [op |-> op, arg |-> arg]]

Done(conv, reply) ==
    [conv |-> conv, reply |-> reply, status |-> "return", call |-> NoCall]

Raised(conv) ==
    [conv |-> conv, reply |-> <<>>, status |-> "raise", call |-> NoCall]

\* One external call with its outcome ("ok", "fail", or "raise").
CallOf(op, arg, res) == [op |-> op, arg |-> arg, res |-> res]

\* A guard that asks only for the keys name and email to be present.
CreateReady_KeyPresent(final_data) ==
    "name" \in DOMAIN final_data /\ "email" \in DOMAIN final_data

\* The guard of the create branch: name and email are both truthy.
CreateReady(final_data) ==
    Truthy(Get(final_data, "name")) /\ Truthy(Get(final_data, "email"))

\* conv["known_kids"].append(sub)
KidAdded(conv, sub) ==
    Put(conv, "known_kids", Append(conv["known_kids"], sub))

\* An end of the success branch that resets pending_needs but leaves the
\* draft.
CreateSucceeded_KeepsDraft(conv) == Put(conv, "pending_needs", <<>>)

\* The end of the success branch of create: the draft and pending_needs are
\* reset.
CreateSucceeded(conv) ==
    Put(Put(conv, "pending_data", EmptyDict), "pending_needs", <<>>)

\* The session after create_subscriber returned None: only the reply changes.
CreateFailed(conv) == conv

\* action == "create", up to the call of create_subscriber.  final_data is
\* the pending_data dict itself, so final_data.update(data) writes into the
\* session's draft.
DoCreate(conv, phone, data, reply) ==
    LET final_data == IF DictTruthy(data)
                      THEN DictUpdate(conv["pending_data"], data)
                      ELSE conv["pending_data"]
        c1 == Put(conv, "pending_data", final_data)
    IN  IF ~CreateReady(final_data)
        THEN Done(c1, reply)
        ELSE Calling(c1, reply, "create", CreatePayload(final_data, phone))

\* A create branch that fires the Trigger after a failed create as well.
CreateAnswered_TriggerOnFailure(conv, reply, payload, ans, next) ==
    CASE ans = "raise" -> Raised(conv)
      [] ans = "fail" ->
            Calling(CreateFailed(conv), <<RETRY_REPLY>>, "trigger", next)
      [] ans = "noid" ->
            Done(CreateSucceeded(
                     KidAdded(conv, [name |-> payload.name,
                                     email |-> payload.email])),
                 Append(reply, MANAGE_LINK))
      [] OTHER ->
            Calling(KidAdded(conv, [id |-> next, name |-> payload.name,
                                    email |-> payload.email]),
                    Append(reply, MANAGE_LINK), "trigger", next)

\* The create branch from the answer of create_subscriber: the request
\* raised, the Directory answered with a failure status (or an empty list),
\* or with the new record; the record carries the id next, or no id ("noid").
\* The record joins known_kids, and the Trigger is called when it has an id.
CreateAnswered(conv, reply, payload, ans, next) ==
    CASE ans = "raise" -> Raised(conv)
      [] ans = "fail" -> Done(CreateFailed(conv), <<RETRY_REPLY>>)
      [] ans = "noid" ->
            Done(CreateSucceeded(
                     KidAdded(conv, [name |-> payload.name,
                                     email |-> payload.email])),
                 Append(reply, MANAGE_LINK))
      [] OTHER ->
            Calling(KidAdded(conv, [id |-> next, name |-> payload.name,
                                    email |-> payload.email]),
                    Append(reply, MANAGE_LINK), "trigger", next)

\* The create branch after trigger_report_for_subscriber returned (it
\* catches its own exceptions and its result is not read).
TriggerAnswered(conv, reply) == Done(CreateSucceeded(conv), reply)

\* A payload that strips email and id but keeps name.
UpdateFields_KeepName(data) ==
    [k \in DOMAIN data \ {"email", "id"} |-> data[k]]

\* update_fields: the turn's data without the keys email, name and id.
UpdateFields(data) ==
    [k \in DOMAIN data \ {"email", "name", "id"} |-> data[k]]

\* The update branch once subs is known: the target is resolved, its name
\* written to the draft, and update_subscriber called when a field is left
\* to write.  target["id"] raises KeyError on a record without id.
UpdateWith(conv, data, reply, subs) ==
    IF subs = <<>> THEN Done(conv, <<NOT_LINKED_REPLY>>)
    ELSE
      LET pending == conv["pending_data"]
          name_raw == Or2(Or2(Get(data, "name"), Get(pending, "name")), "")
          ti == ResolveTarget(subs, name_raw)
      IN  IF ti = 0 THEN Done(conv, reply)
          ELSE
            LET target == subs[ti]
                c1 == Put(conv, "pending_data",
                          Put(pending, "name", target.name))
                update_fields == UpdateFields(data)
            IN  IF DOMAIN update_fields = {} THEN Done(c1, reply)
                ELSE IF "id" \notin DOMAIN target THEN Raised(c1)
                ELSE Calling(c1, reply, "update",
                             [id |-> target.id, fields |-> update_fields])

\* action == "update" and data, up to its first call: lookup_subscribers
\* when the session has no known kids and an email is at hand.
DoUpdate(conv, data, reply) ==
    LET email == Or2(Get(data, "email"), Get(conv["pending_data"], "email"))
        known == KnownKids(conv)
    IN  IF known = <<>> /\ Truthy(email)
        THEN Calling(conv, reply, "lookup_subscribers", email)
        ELSE UpdateWith(conv, data, reply, known)

\* An update branch that deactivates the record after updating it.
UpdateAnswered_ThenDeactivate(conv, reply, ans) ==
    IF ans = "raise" THEN Raised(conv)
    ELSE Calling(conv, reply, "deactivate", EmptyDict)

\* The update branch from the answer of update_subscriber, whose result is
\* not read.
UpdateAnswered(conv, reply, ans) ==
    IF ans = "raise" THEN Raised(conv) ELSE Done(conv, reply)

\* action == "unsubscribe" and data, up to the call.
DoUnsubscribe(conv, data, reply) ==
    Calling(conv, reply, "deactivate",
            DeactivateFilter(Get(data, "email"), Get(data, "name")))

\* The unsubscribe branch from the answer of deactivate_subscriber.
DeactivateAnswered(conv, reply, ans) ==
    CASE ans = "raise" -> Raised(conv)
      [] ans = "fail" -> Done(conv, <<NOT_FOUND_REPLY>>)
      [] OTHER -> Done(conv, reply)

\* action == "lookup" and data, up to the call.
DoLookup(conv, data, reply) ==
    LET email == Get(data, "email")
    IN  IF ~Truthy(email) THEN Done(conv, reply)
        ELSE Calling(conv, reply, "lookup_subscribers", email)

\* The lookup branch from the answer of lookup_subscribers.
LookupAnswered(conv, reply, subs) ==
    IF subs.raise THEN Raised(conv)
    ELSE Done(conv, IF subs.rows # <<>>
                    THEN Append(reply, LOOKUP_LINKS) ELSE <<NO_REPORTS_REPLY>>)

\* action == "feature_request" and data, up to the notification of the
\* admin.
DoFeatureRequest(conv, data, reply) ==
    IF ADMIN_PHONE # ""
    THEN Calling(conv, reply, "notify",
                 IF "request" \in DOMAIN data THEN data["request"]
                 ELSE "unknown")
    ELSE Done(conv, reply)

\* handle_message from the return of parse_message to its first call.
HandleParsed(conv, phone, result) ==
    LET reply == <<result.reply>>
        data == result.data
        c1 == IF result.needs # <<>>
              THEN Put(conv, "pending_needs", result.needs) ELSE conv
        c2 == IF DictTruthy(data)
              THEN Put(c1, "pending_data",
                       MergeNonNull(c1["pending_data"], data))
              ELSE c1
        c3 == AddToHistory(c2, "assistant", <<result.reply>>)
    IN  CASE result.action = "create" ->
                DoCreate(c3, phone, data, reply)
          [] result.action = "update" /\ DictTruthy(data) ->
                DoUpdate(c3, data, reply)
          [] result.action = "unsubscribe" /\ DictTruthy(data) ->
                DoUnsubscribe(c3, data, reply)
          [] result.action = "lookup" /\ DictTruthy(data) ->
                DoLookup(c3, data, reply)
          [] result.action = "feature_request" /\ DictTruthy(data) ->
                DoFeatureRequest(c3, data, reply)
          [] OTHER -> Done(c3, reply)

\* handle_message from the answer of the call it waited for: env.dir is the
\* answer of a Directory write, env.subs of lookup_subscribers, and the
\* results of the Trigger and of the notification are not read.
HandleAnswered(conv, action, data, reply, call, env, next) ==
    CASE call.op = "create" ->
            CreateAnswered(conv, reply, call.arg, env.dir, next)
      [] call.op = "trigger" -> TriggerAnswered(conv, reply)
      [] call.op = "lookup_subscribers" /\ action = "update" ->
            IF env.subs.raise THEN Raised(conv)
            ELSE UpdateWith(conv, data, reply, env.subs.rows)
      [] call.op = "lookup_subscribers" ->
            LookupAnswered(conv, reply, env.subs)
      [] call.op = "update" -> UpdateAnswered(conv, reply, env.dir)
      [] call.op = "deactivate" -> DeactivateAnswered(conv, reply, env.dir)
      [] OTHER -> Done(conv, reply)

(* -------------------------------- state ------------------------------- *)

VARIABLES
    now,                 \* time.time()
    processed_messages,  \* dict: message id -> time it was recorded
    conversations,       \* dict: phone -> the conversation object (its id)
    objs,                \* the live conversation objects, by id
    next_id,             \* the identifier the Directory gives its next record
    fired,               \* the Trigger calls made: record id and caller
    th,                  \* the request threads: pc and local variables
    turns,               \* messages received so far
    ticks,               \* clock advances so far
    seen,                \* dict: message id -> time of its latest arrival
    obs                  \* what happened to the message handled last

vars == <<now, processed_messages, conversations, objs, next_id, fired, th,
          turns, ticks, seen, obs>>

(* ------------------------------- inputs ------------------------------- *)

\* Records the Directory holds before the run.
Tim == [id |-> 1, name |-> "Tim", email |-> "a@b.com"]
Danny == [id |-> 2, name |-> "Danny", email |-> "a@b.com"]
Jessie == [id |-> 11, name |-> "Jessie", email |-> "a@b.com"]
Jess == [id |-> 12, name |-> "Jess", email |-> "a@b.com"]
Jen == [id |-> 13, name |-> "Jen", email |-> "a@b.com"]

\* Answers of a Directory read: rows (empty on a non-200 status too), or the
\* request raising (timeout, connection error).
Rows(rows) == [raise |-> FALSE, rows |-> rows]
ReadRaises == [raise |-> TRUE, rows |-> <<>>]
KidsResponses == {Rows(<<>>), Rows(<<Tim>>), Rows(<<Tim, Danny>>), ReadRaises}
SubsResponses == {Rows(<<>>), Rows(<<Tim>>), ReadRaises}

\* Outcomes of a Directory write, and of the Trigger.
DirOutcomes == {"ok", "fail", "raise"}
\* create_subscriber can also be answered with a record that has no id.
CreateOutcomes == DirOutcomes \cup {"noid"}
TrigOutcomes == {"ok", "fail"}

\* What the services answer in one turn: dir is the outcome of the Directory
\* write, subs the answer of lookup_subscribers, trig the Trigger's outcome,
\* and matched whether the filter of a deactivation that answered with a
\* success status selected any record (the code reads the status only).
DefaultEnv == [dir |-> "ok", subs |-> Rows(<<>>), trig |-> "ok", matched |-> TRUE]
Envs ==
    [dir : CreateOutcomes, subs : SubsResponses, trig : TrigOutcomes,
     matched : BOOLEAN]

\* Seconds the clock can advance by in one step.
TimeSteps == {60, 1680}

\* A text message of a webhook body, with its id ("" when it carries none)
\* and its sender.
Text(id, phone) == [type |-> "text", id |-> id, from |-> phone]

Json(action, data, needs) ==
    [kind |-> "json",
     obj |-> [reply |-> "extractor-reply", action |-> action, data |-> data,
              needs |-> needs]]

\* Results of the extractor, by action (data None is the empty dict): data
\* with and without name and email, with null-valued fields, with and
\* without other fields.
ApiOutcomes ==
    {Json(Null, d, n) :
        d \in {EmptyDict, [name |-> "Tim"], [color_theme |-> "red"]},
        n \in {<<>>, <<"email">>}}
    \cup {Json("create", d, <<>>) :
        d \in {EmptyDict, [name |-> "Tim"], [email |-> "a@b.com"],
               [name |-> "Jake", email |-> "a@b.com", sports |-> <<"nba">>,
                favorite_athlete |-> "LeBron"],
               [name |-> Null, color_theme |-> "red"],
               [color_theme |-> Null]}}
    \cup {Json("update", d, <<>>) :
        d \in {EmptyDict, [name |-> "Tim"], [color_theme |-> "red"],
               [name |-> Null, color_theme |-> "red"],
               [name |-> "Jake", email |-> "a@b.com"]}}
    \cup {Json("unsubscribe", d, <<>>) :
        d \in {EmptyDict, [name |-> "Tim"], [email |-> "a@b.com"],
               [color_theme |-> "red"]}}
    \cup {Json("lookup", d, <<>>) :
        d \in {[email |-> "a@b.com"], [color_theme |-> "red"]}}
    \cup {Json("feature_request", [color_theme |-> "red"], <<>>)}
    \cup {[kind |-> "raw", raw |-> "Sure! {oops", start |-> 6, prefix |-> "Sure!"],
          [kind |-> "error"]}

(* ------------------------------ threads ------------------------------- *)

\* A request thread outside any request.  Inside handle_message conv is the
\* conversation object it works on, action, data and reply are its local
\* variables, and call is the network call it waits for.
IdleThread ==
    [pc |-> "idle", batch |-> <<>>, now |-> 0, conv |-> 0, action |-> Null,
     data |-> EmptyDict, reply |-> <<>>, call |-> NoCall]

NoResult == Result(Null, Null, EmptyDict, <<>>)

NoObs ==
    [kind |-> "none", phone |-> "", msg_id |-> "", time |-> 0,
     prev_seen |-> -1, fresh |-> FALSE, expired |-> FALSE,
     looked_up |-> FALSE,
     api_kind |-> "", result |-> NoResult, calls |-> <<>>, reply |-> <<>>,
     before |-> NewConv(0), parsed |-> NewConv(0), retry_of |-> EmptyDict,
     failed |-> EmptyDict, env |-> DefaultEnv]

\* The thread after its current message: the loop goes on to the next one,
\* and the request returns "OK" after the last.
Popped(t) ==
    LET rest == Tail(th[t].batch)
    IN  [IdleThread EXCEPT !.pc = IF rest = <<>> THEN "idle" ELSE "loop",
                           !.batch = rest, !.now = th[t].now]

\* The thread after an exception: the handler around the loops catches it
\* and the request returns "OK"; the messages left in the body are not read.
Aborted(t) == [IdleThread EXCEPT !.now = th[t].now]

\* The conversation objects still referenced: by the conversations dict or
\* by a thread inside handle_message.
Collect(heap, convs, threads) ==
    LET refs == {convs[p] : p \in DOMAIN convs}
                \cup ({threads[u].conv : u \in DOMAIN threads} \ {0})
    IN  [i \in refs |-> heap[i]]

\* The identity of a newly created object: one no live reference has.
FreshObj(used) ==
    CHOOSE i \in 1..(Cardinality(used) + 1) :
        i \notin used /\ \A j \in 1..(i - 1) : j \in used

(* ------------------------------- actions ------------------------------ *)

\* Time passes.
Tick(d) ==
    /\ ticks < MaxTicks
    /\ now' = now + d
    /\ ticks' = ticks + 1
    /\ UNCHANGED <<processed_messages, conversations, objs, next_id, fired,
                   th, turns, seen, obs>>

\* webhook: a POST arrives; body is the list of its messages in the order
\* the nested loops over entry / changes / messages visit them.  The n-th
\* message the webhook ever receives has the text "n".
Receive(t, body) ==
    /\ th[t].pc = "idle"
    /\ turns + Len(body) <= MaxTurns
    /\ th' = [th EXCEPT ![t].pc = "loop",
                        ![t].batch =
                            [i \in 1..Len(body) |->
                                [type |-> body[i].type, id |-> body[i].id,
                                 from |-> body[i].from,
                                 text |-> ToString(turns + i)]]]
    /\ turns' = turns + Len(body)
    /\ UNCHANGED <<now, processed_messages, conversations, objs, next_id,
                   fired, ticks, seen, obs>>

\* The ids whose last admitted message raised inside handle_message, each
\* with the clock reading of that message, after the message o observed.
FailedTurns(o) ==
    IF o.msg_id = "" THEN o.failed
    ELSE IF o.kind = "raised" THEN Put(o.failed, o.msg_id, o.time)
    ELSE IF o.kind = "replied"
    THEN [k \in DOMAIN o.failed \ {o.msg_id} |-> o.failed[k]]
    ELSE o.failed

\* The payload of the create call that failed in the turn o observed, the
\* empty dict when there was none.
FailedCreate(o) ==
    IF \E i \in 1..Len(o.calls) :
            o.calls[i].op = "create" /\ o.calls[i].res # "ok"
    THEN o.calls[CHOOSE i \in 1..Len(o.calls) : o.calls[i].op = "create"].arg
    ELSE EmptyDict

\* The duplicate test of the loop body.
IsDuplicate(pm, msg_id, t_now) ==
    msg_id \in DOMAIN pm /\ t_now - pm[msg_id] < DEDUP_TTL

\* webhook, the head of the loop body: a non-text message is skipped; a
\* message with an id reads the clock and is dropped when it is a duplicate.
LoopStep(t) ==
    /\ th[t].pc = "loop"
    /\ LET m == Head(th[t].batch)
           o == [NoObs EXCEPT !.phone = m.from, !.msg_id = m.id, !.time = now,
                              !.prev_seen = IF m.id \in DOMAIN seen
                                            THEN seen[m.id] ELSE -1,
                              !.retry_of = FailedCreate(obs),
                              !.failed = FailedTurns(obs)]
       IN  IF m.type # "text"
           THEN /\ th' = [th EXCEPT ![t] = Popped(t)]
                /\ obs' = [o EXCEPT !.kind = "skipped"]
                /\ seen' = seen
           ELSE IF m.id = ""
           THEN /\ th' = [th EXCEPT ![t].pc = "handle"]
                /\ obs' = [o EXCEPT !.kind = "admitted"]
                /\ seen' = seen
           ELSE /\ seen' = Put(seen, m.id, now)
                /\ IF IsDuplicate(processed_messages, m.id, now)
                   THEN /\ th' = [th EXCEPT ![t] = Popped(t)]
                        /\ obs' = [o EXCEPT !.kind = "dropped"]
                   ELSE /\ th' = [th EXCEPT ![t].pc = "record", ![t].now = now]
                        /\ obs' = [o EXCEPT !.kind = "admitted"]
    /\ UNCHANGED <<now, processed_messages, conversations, objs, next_id,
                   fired, turns, ticks>>

\* A webhook that cleans the old entries but does not store the new id.
Recorded_NotStored(pm, msg_id, t_now) ==
    [k \in {x \in DOMAIN pm : ~(t_now - pm[x] > DEDUP_TTL)} |-> pm[k]]

\* processed_messages after the id is recorded and the old entries cleaned.
Recorded(pm, msg_id, t_now) ==
    LET pm1 == Put(pm, msg_id, t_now)
    IN  [k \in {x \in DOMAIN pm1 : ~(t_now - pm1[x] > DEDUP_TTL)} |-> pm1[k]]

\* webhook: the id of an admitted message is recorded.
DedupRecord(t) ==
    /\ th[t].pc = "record"
    /\ processed_messages' =
           Recorded(processed_messages, Head(th[t].batch).id, th[t].now)
    /\ th' = [th EXCEPT ![t].pc = "handle"]
    /\ UNCHANGED <<now, conversations, objs, next_id, fired, turns, ticks,
                   seen, obs>>

\* A test that lets a session live for ever.
Alive_NoExpiry(phone) == phone \in DOMAIN conversations

\* get_conversation: whether the phone has a session that has not expired.
Alive(phone) ==
    /\ phone \in DOMAIN conversations
    /\ now - objs[conversations[phone]]["last_active"] < CONVERSATION_TTL

\* A known_kids block that never pre-seeds the draft's email.
WithKnownKids_NoSeed(conv, kids) == Put(conv, "known_kids", kids)

\* handle_message, the known_kids block, with the answer of lookup_by_phone.
WithKnownKids(conv, kids) ==
    LET c == Put(conv, "known_kids", kids)
    IN  IF kids # <<>>
        THEN Put(c, "pending_data",
                 Put(c["pending_data"], "email", kids[1].email))
        ELSE c

\* msg_for_claude: the text, and on the first message of a session with
\* known kids the [SYSTEM: ...] note naming them and their email.
MsgForClaude(conv, text) ==
    LET kids == KnownKids(conv)
    IN  IF kids # <<>> /\ Len(conv["history"]) = 0
        THEN <<text, "[SYSTEM]">> \o [i \in 1..Len(kids) |-> kids[i].name]
             \o <<kids[1].email>>
        ELSE <<text>>

\* handle_message up to its first network call: get_conversation fetches or
\* creates the session; a session without known_kids goes on to look them
\* up, any other has the user's message appended to its history and goes on
\* to the parse.
HandleBegin(t) ==
    /\ th[t].pc = "handle"
    /\ LET m == Head(th[t].batch)
           phone == m.from
           alive == Alive(phone)
           used == {conversations[q] : q \in DOMAIN conversations \ {phone}}
                   \cup ({th[u].conv : u \in DOMAIN th} \ {0})
           id == IF alive THEN conversations[phone] ELSE FreshObj(used)
           conv0 == IF alive THEN Put(objs[id], "last_active", now)
                    ELSE NewConv(now)
           first == "known_kids" \notin DOMAIN conv0
           convs1 == Put(conversations, phone, id)
           conv2 == AddToHistory(conv0, "user", MsgForClaude(conv0, m.text))
           o == [obs EXCEPT !.fresh = ~alive, !.looked_up = first,
                            !.expired = phone \in DOMAIN conversations /\ ~alive,
                            !.before = conv0]
       IN  /\ conversations' = convs1
           /\ th' = [th EXCEPT ![t].pc = IF first THEN "lookup" ELSE "parse",
                               ![t].conv = id]
           /\ objs' = Collect(Put(objs, id, IF first THEN conv0 ELSE conv2),
                              convs1, th')
           /\ obs' = IF first THEN o
                     ELSE [o EXCEPT !.kind = "begun", !.parsed = conv2]
    /\ UNCHANGED <<now, processed_messages, next_id, fired, turns, ticks, seen>>

\* handle_message from the answer of lookup_by_phone to the call of
\* parse_message: the answer becomes the session's known_kids, and the
\* user's message is appended to the history.
HandleLookup(t, kids) ==
    /\ th[t].pc = "lookup"
    /\ LET m == Head(th[t].batch)
           id == th[t].conv
           conv1 == WithKnownKids(objs[id], kids.rows)
           conv2 == AddToHistory(conv1, "user", MsgForClaude(conv1, m.text))
       IN  IF kids.raise
           THEN /\ th' = [th EXCEPT ![t] = Aborted(t)]
                /\ objs' = Collect(objs, conversations, th')
                /\ obs' = [obs EXCEPT !.kind = "raised"]
           ELSE /\ th' = [th EXCEPT ![t].pc = "parse"]
                /\ objs' = Collect(Put(objs, id, conv2), conversations, th')
                /\ obs' = [obs EXCEPT !.kind = "begun", !.parsed = conv2]
    /\ UNCHANGED <<now, processed_messages, conversations, next_id, fired,
                   turns, ticks, seen>>

\* The thread after a stretch r of handle_message that began in thread
\* state thr: waiting for the answer of a call, about to send the reply
\* handle_message returned, or out of the request after an exception.
Advanced(t, thr, r) ==
    CASE r.status = "raise" -> Aborted(t)
      [] r.status = "call" ->
            [thr EXCEPT !.pc = "call", !.reply = r.reply, !.call = r.call]
      [] OTHER ->
            [thr EXCEPT !.pc = "send", !.reply = r.reply, !.call = NoCall,
                        !.conv = 0]

\* handle_message from the return of parse_message to its first call.
HandleEnd(t, api) ==
    /\ th[t].pc = "parse"
    /\ LET m == Head(th[t].batch)
           id == th[t].conv
           result == ParseMessage(api)
           r == HandleParsed(objs[id], m.from, result)
           thr == [th[t] EXCEPT !.action = result.action,
                                !.data = result.data]
       IN  /\ th' = [th EXCEPT ![t] = Advanced(t, thr, r)]
           /\ objs' = Collect(Put(objs, id, r.conv), conversations, th')
           /\ obs' = [obs EXCEPT !.kind = IF r.status = "raise"
                                          THEN "raised" ELSE @,
                                 !.api_kind = api.kind,
                                 !.result = result]
    /\ UNCHANGED <<now, processed_messages, conversations, next_id, fired,
                   turns, ticks, seen>>

\* An answer matters only to the call it answers; only create_subscriber
\* is answered with a record.
EnvUsed(env, op) ==
    /\ env.dir = DefaultEnv.dir \/ op \in Mutating
    /\ env.dir = "noid" => op = "create"
    /\ env.subs = DefaultEnv.subs \/ op = "lookup_subscribers"
    /\ env.trig = DefaultEnv.trig \/ op = "trigger"
    /\ env.matched = DefaultEnv.matched
       \/ (op = "deactivate" /\ env.dir = "ok")

\* The outcome of the call op under the answers env.
Outcome(env, op) ==
    CASE op \in Mutating -> IF env.dir = "noid" THEN "ok" ELSE env.dir
      [] op = "lookup_subscribers" -> IF env.subs.raise THEN "raise" ELSE "ok"
      [] op = "trigger" -> env.trig
      [] OTHER -> "ok"

\* The answers the calls of a turn have had, after op was answered by env.
Answers(old, env, op) ==
    [dir |-> IF op \in Mutating THEN env.dir ELSE old.dir,
     subs |-> IF op = "lookup_subscribers" THEN env.subs ELSE old.subs,
     trig |-> IF op = "trigger" THEN env.trig ELSE old.trig,
     matched |-> IF op = "deactivate" THEN env.matched ELSE old.matched]

\* handle_message from the answer of a call to its next call or its return.
HandleCall(t, env) ==
    /\ th[t].pc = "call"
    /\ LET id == th[t].conv
           call == th[t].call
           r == HandleAnswered(objs[id], th[t].action, th[t].data,
                               th[t].reply, call, env, next_id)
       IN  /\ EnvUsed(env, call.op)
           /\ th' = [th EXCEPT ![t] = Advanced(t, th[t], r)]
           /\ objs' = Collect(Put(objs, id, r.conv), conversations, th')
           /\ next_id' = IF call.op = "create" /\ env.dir = "ok"
                         THEN next_id + 1 ELSE next_id
           /\ fired' = IF call.op = "trigger"
                       THEN fired \cup {[id |-> call.arg, by |-> "turn"]}
                       ELSE fired
           /\ obs' = [obs EXCEPT !.kind = IF r.status = "raise"
                                          THEN "raised" ELSE @,
                                 !.calls = Append(@, CallOf(call.op, call.arg,
                                                            Outcome(env, call.op))),
                                 !.env = Answers(@, env, call.op)]
    /\ UNCHANGED <<now, processed_messages, conversations, turns, ticks, seen>>

\* webhook: send_whatsapp_message sends the reply handle_message returned
\* (it catches its own exceptions), and the loop goes on.
Send(t) ==
    /\ th[t].pc = "send"
    /\ th' = [th EXCEPT ![t] = Popped(t)]
    /\ obs' = [obs EXCEPT !.kind = "replied", !.reply = th[t].reply]
    /\ UNCHANGED <<now, processed_messages, conversations, objs, next_id,
                   fired, turns, ticks, seen>>

\* The route /trigger-report: the Trigger is fired for the subscriber_id of
\* the request's body, unless it is missing or falsy (0).
TriggerReport(sub_id) ==
    /\ fired' = IF sub_id # 0
                THEN fired \cup {[id |-> sub_id, by |-> "route"]}
                ELSE fired
    /\ UNCHANGED <<now, processed_messages, conversations, objs, next_id, th,
                   turns, ticks, seen, obs>>

(* --------------------------- specifications --------------------------- *)

InitWith(threads) ==
    /\ now = 0
    /\ processed_messages = EmptyDict
    /\ conversations = EmptyDict
    /\ objs = EmptyDict
    /\ next_id = 3
    /\ fired = {}
    /\ th = [t \in threads |-> IdleThread]
    /\ turns = 0
    /\ ticks = 0
    /\ seen = EmptyDict
    /\ obs = NoObs

\* The steps of the webhook, over the given inputs.
Steps(threads, bodies, kidsSet, apis) ==
    \/ \E t \in threads, body \in bodies : Receive(t, body)
    \/ \E t \in threads : LoopStep(t)
    \/ \E t \in threads : HandleBegin(t)
    \/ \E t \in threads, kids \in kidsSet : HandleLookup(t, kids)
    \/ \E t \in threads, api \in apis : HandleEnd(t, api)
    \/ \E t \in threads : Send(t)

\* The steps of the turns that make calls, over the given answers.
CallSteps(threads, envs) == \E t \in threads, env \in envs : HandleCall(t, env)

\* Spec: the turns of one session.  One request at a time, one message a
\* request, all from one sender and within the session's lifetime, over
\* every result of the extractor and every answer of the Directory, and
\* requests to the route /trigger-report.  The messages carry no id, so the
\* duplicate filter lets each through.
TurnBodies == {<<Text("", "p1")>>}

Init == InitWith({1})

\* The ids the route /trigger-report is called with (0: none).
RouteIds == {0, 1}

Next ==
    \/ Steps({1}, TurnBodies, KidsResponses, ApiOutcomes)
    \/ CallSteps({1}, Envs)
    \/ \E sub_id \in RouteIds : TriggerReport(sub_id)

Spec == Init /\ [][Next]_vars

\* SpecDedup: the duplicate filter and the session lifetime.  One request at
\* a time, of one or two messages, with and without ids, while time passes;
\* the extractor and the Directory answer in a fixed way.
DedupBodies ==
    {<<Text("m1", "p1")>>, <<Text("", "p1")>>,
     <<[type |-> "image", id |-> "m1", from |-> "p1"]>>,
     <<Text("m1", "p1"), Text("m2", "p2")>>}
DedupKids == {Rows(<<>>), ReadRaises}
DedupApis == {Json(Null, EmptyDict, <<>>)}

NextDedup ==
    \/ Steps({1}, DedupBodies, DedupKids, DedupApis)
    \/ \E t \in {1} : DedupRecord(t)
    \/ \E d \in TimeSteps : Tick(d)

SpecDedup == Init /\ [][NextDedup]_vars

\* SpecConc: two requests at a time, each of one message, at one instant.
\* A thread gives way to the other at each network call it makes.
ConcBodies ==
    {<<Text("m1", "p1")>>, <<Text("", "p1")>>}
ConcKids == {Rows(<<>>), Rows(<<Tim>>)}
ConcApis ==
    {Json(Null, [name |-> "Tim"], <<>>),
     Json("create", [name |-> "Jake"], <<>>)}

InitConc == InitWith({1, 2})

NextConc ==
    \/ Steps({1, 2}, ConcBodies, ConcKids, ConcApis)
    \/ CallSteps({1, 2}, {DefaultEnv})
    \/ \E t \in {1, 2} : DedupRecord(t)

SpecConc == InitConc /\ [][NextConc]_vars

\* SpecUpdate: the update turns of one session.  One request at a time from
\* one sender, over lists of known kids of every length up to two and
\* candidate names that match exactly, as a part, or not at all.
UpdateKids ==
    {Rows(<<>>), Rows(<<Tim>>), Rows(<<Tim, Danny>>), Rows(<<Jessie, Jess>>),
     Rows(<<Tim, Jen>>)}
UpdateApis ==
    {Json("update", d, <<>>) :
        d \in {[color_theme |-> "red"],
               [name |-> "Tim", color_theme |-> "red"],
               [name |-> "Tim's", color_theme |-> "red"],
               [name |-> "Jake", color_theme |-> "red"],
               [name |-> "Jess", color_theme |-> "red"],
               [name |-> "", color_theme |-> "red"],
               [name |-> "Tim"],
               [name |-> "Danny", email |-> "a@b.com", id |-> "2"],
               [email |-> "a@b.com", color_theme |-> Null]}}
    \cup {Json(Null, [name |-> "Danny"], <<>>)}
UpdateEnvs ==
    {e \in Envs : e.dir \in {"ok", "fail"} /\ e.subs \in {Rows(<<>>), Rows(<<Tim>>)}}

NextUpdate ==
    \/ Steps({1}, TurnBodies, UpdateKids, UpdateApis)
    \/ CallSteps({1}, UpdateEnvs)

SpecUpdate == Init /\ [][NextUpdate]_vars

\* SpecHistory: the turns of a session that has had up to MaxPast turns
\* already (the sender has no record in the Directory, and the extractor
\* answered each of them), so that the history fills up and overflows.
RECURSIVE PastConv(_)
PastConv(n) ==
    IF n = 0
    THEN Put(NewConv(0), "known_kids", <<>>)
    ELSE AddToHistory(
             AddToHistory(PastConv(n - 1), "user", <<ToString(n - MaxPast)>>),
             "assistant", <<"extractor-reply">>)

InitHistory ==
    /\ now = 0
    /\ processed_messages = EmptyDict
    /\ \E n \in 0..MaxPast :
          IF n = 0
          THEN conversations = EmptyDict /\ objs = EmptyDict
          ELSE /\ conversations = [p \in {"p1"} |-> 1]
               /\ objs = [i \in {1} |-> PastConv(n)]
    /\ next_id = 3
    /\ fired = {}
    /\ th = [t \in {1} |-> IdleThread]
    /\ turns = 0
    /\ ticks = 0
    /\ seen = EmptyDict
    /\ obs = NoObs

HistApis == {Json(Null, EmptyDict, <<>>), [kind |-> "error"]}

NextHistory == Steps({1}, TurnBodies, {Rows(<<>>)}, HistApis)

SpecHistory == InitHistory /\ [][NextHistory]_vars

(* ----------------------- reading the observation --------------------- *)

\* Where a thread is while the webhook works on an admitted message (from
\* the call of handle_message to the reply sent), and while it is inside
\* handle_message past get_conversation.
InTurn == {"handle", "lookup", "parse", "call", "send"}
InHandle == {"lookup", "parse", "call"}

\* The last message was handled to the end of handle_message (it returned a
\* reply, which was sent, or raised after the parse).
Finished == obs.kind \in {"replied", "raised"} /\ obs.api_kind # ""

\* The session of the sender of the last message.
Sess == objs[conversations[obs.phone]]

\* The last turn made the call op with the outcome res.
Made(op, res) ==
    \E i \in 1..Len(obs.calls) : obs.calls[i].op = op /\ obs.calls[i].res = res

\* The last turn's create call failed (a failure status, or the request raised).
CreateFailedIn(i) == obs.calls[i].op = "create" /\ obs.calls[i].res # "ok"

\* The draft as parse_message was called, and the draft the Data Accumulator
\* makes of it and of the turn's data.
DraftAtParse == obs.parsed["pending_data"]
MergedDraft == MergeNonNull(DraftAtParse, obs.result.data)

\* The messages of the last turn's call of parse_message:
\* parse_message(msg_for_claude, conv["history"][:-1]), where msg_for_claude
\* is the content add_to_history has just appended.
ExtractorMessages ==
    LET h == obs.parsed["history"]
    IN  Messages(h[Len(h)].content, SubSeq(h, 1, Len(h) - 1))

(* ------------------------------- claims ------------------------------- *)

\* C1: a message whose id the webhook received in a text message less than
\* DEDUP_TTL before is dropped (or skipped, when it is not a text message):
\* handle_message is not run for it, no call is made and no reply is sent.
C1_DuplicateWithinTTLDropped ==
    (/\ obs.msg_id # ""
     /\ obs.prev_seen >= 0
     /\ obs.time - obs.prev_seen < DEDUP_TTL)
        => obs.kind \in {"dropped", "skipped"}

\* C2: of the requests that carry one id and are processed at the same time,
\* at most one is admitted and reaches handle_message.
C2_AtMostOneAdmitted ==
    \A t1 \in DOMAIN th, t2 \in DOMAIN th :
        (/\ t1 # t2
         /\ th[t1].pc \in InTurn
         /\ th[t2].pc \in InTurn
         /\ Head(th[t1].batch).id # "")
            => Head(th[t1].batch).id # Head(th[t2].batch).id

\* C3: the turns of one sender are serialized: no two requests are inside
\* handle_message for the same sender at the same time.
C3_SenderTurnsSerialized ==
    \A t1 \in DOMAIN th, t2 \in DOMAIN th :
        (/\ t1 # t2
         /\ th[t1].pc \in InHandle
         /\ th[t2].pc \in InHandle)
            => Head(th[t1].batch).from # Head(th[t2].batch).from

\* C4: in every reachable state, no session's draft (pending_data) holds a
\* key whose value is null.
C4_DraftNeverHoldsNull ==
    \A i \in DOMAIN objs :
        \A k \in DOMAIN objs[i]["pending_data"] :
            objs[i]["pending_data"][k] # Null

\* C5: a key populated in the draft is neither erased nor changed by a turn
\* whose data gives it a null value or omits it, whatever the action, unless
\* the turn clears the draft by a successful create.
C5_PopulatedKeysKept ==
    (Finished /\ ~Made("create", "ok")) =>
        \A k \in DOMAIN DraftAtParse :
            (DraftAtParse[k] # Null /\ Get(obs.result.data, k) = Null)
                => Get(Sess["pending_data"], k) = DraftAtParse[k]

\* C6: a create turn calls the Directory's create only when name and email
\* are both non-empty in the draft merged with the turn's data; when either
\* is missing the dispatch makes no Directory call and no Trigger call, and
\* the extractor's reply is returned unchanged.
C6_CreateNeedsNameAndEmail ==
    LET present == /\ Truthy(Get(MergedDraft, "name"))
                   /\ Truthy(Get(MergedDraft, "email"))
    IN  (Finished /\ obs.result.action = "create") =>
            /\ (\E i \in 1..Len(obs.calls) : obs.calls[i].op = "create")
                  => present
            /\ ~present =>
                  /\ obs.calls = <<>>
                  /\ obs.kind = "replied"
                  /\ obs.reply = <<obs.result.reply>>

\* A create turn that brought a name while no email is known.
C6_Witness ==
    /\ Finished /\ obs.result.action = "create"
    /\ Truthy(Get(MergedDraft, "name")) /\ ~Truthy(Get(MergedDraft, "email"))
    /\ obs.reply = <<obs.result.reply>>

\* C7: after a create turn whose create call succeeded, the session's draft
\* is empty, its pending_needs is empty, and its known_kids is what it was
\* plus one element, the record the Directory created.
C7_SuccessfulCreateClosesDraft ==
    (Finished /\ Made("create", "ok")) =>
        LET before == obs.parsed["known_kids"]
            after == Sess["known_kids"]
            payload == obs.calls[1].arg
        IN  /\ Sess["pending_data"] = EmptyDict
            /\ "pending_needs" \in DOMAIN Sess
            /\ Sess["pending_needs"] = <<>>
            /\ Len(after) = Len(before) + 1
            /\ SubSeq(after, 1, Len(before)) = before
            /\ after[Len(after)] =
                  IF obs.env.dir = "noid"
                  THEN [name |-> payload.name, email |-> payload.email]
                  ELSE [id |-> next_id - 1, name |-> payload.name,
                        email |-> payload.email]

\* A successful create in a session that had known kids and pending needs.
C7_Witness ==
    /\ Finished /\ Made("create", "ok")
    /\ obs.parsed["known_kids"] # <<>>
    /\ "pending_needs" \in DOMAIN obs.parsed
    /\ obs.parsed["pending_needs"] # <<>>

\* C8: whenever the Directory-mutating call of a turn fails (create, update
\* or deactivate returns a failure status or times out), the sender is sent
\* one of the fixed failure replies, not the extractor's reply.
C8_MutationFailureSurfaced ==
    (Finished /\ \E i \in 1..Len(obs.calls) :
                    /\ obs.calls[i].op \in {"create", "update", "deactivate"}
                    /\ obs.calls[i].res # "ok")
        => /\ obs.kind = "replied"
           /\ obs.reply \in {<<RETRY_REPLY>>, <<NOT_FOUND_REPLY>>}

\* C9: when the create call of a create turn fails, the draft is not
\* cleared: it holds every field accumulated up to and including the turn
\* (each field of the draft as the turn found it, overwritten by the turn's
\* non-null data), and a following create turn without data calls create
\* with the same payload.
C9_FailedCreateKeepsDraft ==
    /\ \A i \in 1..Len(obs.calls) :
          (Finished /\ CreateFailedIn(i)) =>
              \A k \in DOMAIN MergedDraft :
                  Get(Sess["pending_data"], k) = MergedDraft[k]
    /\ (/\ Finished
        /\ obs.retry_of # EmptyDict
        /\ obs.result.action = "create"
        /\ obs.result.data = EmptyDict)
          => /\ obs.calls # <<>>
             /\ obs.calls[1].op = "create"
             /\ obs.calls[1].arg = obs.retry_of

\* C10: when the extractor fails (the API call raises, or its output is not
\* JSON), the turn replies with the fixed apology, has action none, makes no
\* call, and leaves history, draft and pending_needs as they were before
\* the turn.
C10_ExtractorFailureLeavesNoTrace ==
    (Finished /\ obs.api_kind \in {"error", "raw"}) =>
        /\ obs.kind = "replied"
        /\ obs.reply = <<API_ERROR_REPLY>>
        /\ obs.result.action = Null
        /\ obs.calls = <<>>
        /\ Sess["history"] = obs.before["history"]
        /\ Sess["pending_data"] = obs.before["pending_data"]
        /\ ("pending_needs" \in DOMAIN Sess) = ("pending_needs" \in DOMAIN obs.before)
        /\ "pending_needs" \in DOMAIN Sess
              => Sess["pending_needs"] = obs.before["pending_needs"]

\* C11: a turn makes at most one Directory-mutating call, and when the turn
\* returns its reply every call it made has returned.
C11_AtMostOneMutation ==
    Finished =>
        /\ Cardinality({i \in 1..Len(obs.calls) : obs.calls[i].op \in Mutating}) <= 1
        /\ obs.kind = "replied" =>
              \A i \in 1..Len(obs.calls) : obs.calls[i].res \in {"ok", "fail"}

\* A turn that deactivated a record and returned the extractor's reply.
C11_Witness ==
    /\ Finished /\ obs.kind = "replied"
    /\ Made("deactivate", "ok")
    /\ obs.reply = <<obs.result.reply>>

\* The candidate name of an update turn: the name of the turn's data, else
\* the name the draft holds.
Candidate ==
    Or2(Or2(Get(obs.result.data, "name"), Get(MergedDraft, "name")), "")

\* The last turn is an update turn that reached the dispatch.
UpdateTurn ==
    Finished /\ obs.result.action = "update" /\ DictTruthy(obs.result.data)

\* C12: an update turn of a sender with two or more known kids whose
\* candidate name (case-folded, a trailing "'s" dropped) is empty or is
\* neither equal to, part of, nor containing the name of any of them makes
\* no Directory update call.
C12_UnmatchedNameNoUpdate ==
    LET kids == KnownKids(obs.parsed)
        low == Lower(Chars(Candidate))
        norm == IF Len(low) >= 2 /\ SubSeq(low, Len(low) - 1, Len(low)) = <<"'", "s">>
                THEN SubSeq(low, 1, Len(low) - 2) ELSE low
        Matches(k) ==
            LET n == Lower(Chars(k.name))
            IN  norm # <<>> /\ (Contains(n, norm) \/ Contains(norm, n))
    IN  (/\ UpdateTurn
         /\ Len(kids) >= 2
         /\ \A i \in 1..Len(kids) : ~Matches(kids[i]))
            => \A j \in 1..Len(obs.calls) : obs.calls[j].op # "update"

\* C13: when the candidate name of an update turn (case-folded, a trailing
\* "'s" dropped) equals the case-folded name of a known kid, the target is
\* a kid of that name: the draft's name becomes that name and an update
\* call is made on that kid's id, whatever the order of the known kids.
C13_ExactMatchFirst ==
    LET kids == KnownKids(obs.parsed)
        low == Lower(Chars(Candidate))
        norm == IF Len(low) >= 2 /\ SubSeq(low, Len(low) - 1, Len(low)) = <<"'", "s">>
                THEN SubSeq(low, 1, Len(low) - 2) ELSE low
        exact == {i \in 1..Len(kids) :
                     norm # <<>> /\ Lower(Chars(kids[i].name)) = norm}
    IN  (UpdateTurn /\ exact # {}) =>
            /\ Get(Sess["pending_data"], "name") \in {kids[i].name : i \in exact}
            /\ \A j \in 1..Len(obs.calls) :
                  obs.calls[j].op = "update"
                      => obs.calls[j].arg.id \in {kids[i].id : i \in exact}

\* C14: an update turn of a sender with exactly one known kid whose data
\* has a field other than email, name and id calls the Directory's update
\* on that kid's id, whatever the candidate name.
C14_SingleKidFallback ==
    LET kids == KnownKids(obs.parsed)
    IN  (/\ UpdateTurn
         /\ Len(kids) = 1
         /\ DOMAIN obs.result.data \ {"email", "name", "id"} # {})
            => \E j \in 1..Len(obs.calls) :
                  /\ obs.calls[j].op = "update"
                  /\ obs.calls[j].arg.id = kids[1].id

\* The only known kid is Tim, the candidate is Jake, and Tim's record is
\* updated.
C14_Witness ==
    /\ UpdateTurn
    /\ KnownKids(obs.parsed) = <<Tim>>
    /\ Candidate = "Jake"
    /\ Made("update", "ok")

\* C15: every deactivate call restricts its filter by email or by name; an
\* unsubscribe turn whose data has neither makes no deactivate call.
C15_DeactivateNeedsEmailOrName ==
    Finished =>
        \A j \in 1..Len(obs.calls) :
            obs.calls[j].op = "deactivate"
                => /\ DOMAIN obs.calls[j].arg # {}
                   /\ \/ Truthy(Get(obs.result.data, "email"))
                      \/ Truthy(Get(obs.result.data, "name"))

\* C16: an unsubscribe turn whose deactivation found no matching active
\* record (the Directory answered with a failure status, or with a success
\* status and no record selected) replies that nothing was found, and makes
\* no other call.
C16_NoMatchOverridesReply ==
    (/\ Finished
     /\ obs.result.action = "unsubscribe"
     /\ \/ Made("deactivate", "fail")
        \/ Made("deactivate", "ok") /\ ~obs.env.matched)
        => /\ obs.kind = "replied"
           /\ obs.reply = <<NOT_FOUND_REPLY>>
           /\ Len(obs.calls) = 1

\* C17: the payload of every update call has none of the keys email, name
\* and id and is not empty; an update turn whose data has no other key
\* makes no update call.
C17_UpdatePayloadStripped ==
    Finished =>
        \A j \in 1..Len(obs.calls) :
            obs.calls[j].op = "update"
                => /\ DOMAIN obs.calls[j].arg.fields \cap {"email", "name", "id"} = {}
                   /\ DOMAIN obs.calls[j].arg.fields # {}
                   /\ DOMAIN obs.result.data \ {"email", "name", "id"} # {}

\* An update call made by a turn whose data names the kid.
C17_Witness ==
    /\ UpdateTurn
    /\ Truthy(Get(obs.result.data, "name"))
    /\ Made("update", "ok")

\* C18: when handle_message starts for a sender whose session was last
\* active more than CONVERSATION_TTL ago, the session is discarded and the
\* turn runs on a new one, with empty history and draft and its known kids
\* looked up again; when the session was last active less than
\* CONVERSATION_TTL ago, the turn runs on it, with last_active refreshed.
C18_IdleSessionExpires ==
    [][\A t \in DOMAIN th :
          (th[t].pc = "handle" /\ th'[t].pc # "handle"
           /\ Head(th[t].batch).from \in DOMAIN conversations) =>
              LET p == Head(th[t].batch).from
                  old == objs[conversations[p]]
                  age == now - old["last_active"]
                  new == objs'[conversations'[p]]
              IN  /\ age > CONVERSATION_TTL =>
                        /\ obs'.fresh /\ obs'.looked_up
                        /\ obs'.before = [history |-> <<>>, last_active |-> now,
                                          pending_data |-> EmptyDict]
                        /\ new["last_active"] = now
                        /\ Len(new["history"]) <= 1
                  /\ age < CONVERSATION_TTL =>
                        /\ ~obs'.fresh
                        /\ conversations'[p] = conversations[p]
                        /\ obs'.before = Put(old, "last_active", now)
                        /\ new["last_active"] = now
                        /\ Len(new["history"]) >= Len(old["history"])]_vars

\* A turn that found the sender's session expired and began a new one.
C18_Witness ==
    /\ obs.kind = "begun"
    /\ obs.expired
    /\ obs.time > CONVERSATION_TTL
    /\ Len(obs.parsed["history"]) = 1

\* The last message got past the known_kids block of handle_message.
Begun == obs.kind = "begun" \/ Finished

\* C19 as stated: the lookup by the sender's phone is made on the turn that
\* created the session and on no later turn of it, and the draft's email is
\* pre-seeded on that turn only.
C19_LookupOnlyOnFirstTurn ==
    /\ obs.kind \in {"begun", "replied", "raised"} =>
          (obs.looked_up <=> obs.fresh)
    /\ Begun =>
          (Get(obs.parsed["pending_data"], "email")
               # Get(obs.before["pending_data"], "email") => obs.fresh)

\* C19 amended: the lookup is made on the turn that created the session and
\* again on each later turn as long as every lookup before it raised (no
\* turn of the session has reached the extractor yet); once it has returned
\* it is not made again.  The turn whose lookup returned records pre-seeds
\* the draft's email from the first of them, and no other turn changes the
\* draft before the parse.
C19_LookupUntilAnswered ==
    /\ obs.kind \in {"begun", "replied", "raised"} =>
          /\ obs.fresh => obs.looked_up
          /\ obs.looked_up <=> "known_kids" \notin DOMAIN obs.before
          /\ obs.looked_up =>
                obs.before["history"] = <<>> /\ obs.before["pending_data"] = EmptyDict
    /\ Begun =>
          LET kids == obs.parsed["known_kids"]
          IN  obs.parsed["pending_data"] =
                  IF obs.looked_up /\ kids # <<>>
                  THEN Put(obs.before["pending_data"], "email", kids[1].email)
                  ELSE obs.before["pending_data"]

\* The second turn of a session looks the kids up, the first turn's lookup
\* having raised, and pre-seeds the email.
C19_Witness ==
    /\ Begun
    /\ obs.looked_up /\ ~obs.fresh
    /\ obs.parsed["known_kids"] # <<>>
    /\ Get(obs.parsed["pending_data"], "email") = obs.parsed["known_kids"][1].email

\* C20: a session's history never holds more than 20 entries, and each
\* step of a turn that adds an entry (the user's message before the parse,
\* the reply after it) leaves the most recent entries in arrival order:
\* the history it found with the new entry at its end, less the oldest
\* entry when that makes 21.
C20_HistoryBounded ==
    /\ [](\A i \in DOMAIN objs : Len(objs[i]["history"]) <= 20)
    /\ [][\A t \in DOMAIN th :
            (\/ th[t].pc \in {"handle", "lookup"} /\ th'[t].pc = "parse"
             \/ th[t].pc = "parse" /\ th'[t].pc # "parse") =>
                LET p == Head(th[t].batch).from
                    h == IF th[t].pc = "handle"
                         THEN objs[conversations[p]]["history"]
                         ELSE objs[th[t].conv]["history"]
                    new == objs'[conversations'[p]]["history"]
                    all == Append(h, new[Len(new)])
                IN  /\ new # <<>>
                    /\ new[Len(new)].role =
                          (IF th[t].pc = "parse" THEN "assistant" ELSE "user")
                    /\ new = IF Len(all) > 20
                             THEN SubSeq(all, Len(all) - 19, Len(all))
                             ELSE all]_vars

\* A full history that has lost its oldest entry to the user's message
\* that just arrived.
C20_Witness ==
    /\ obs.kind = "begun"
    /\ Len(obs.before["history"]) = 20
    /\ Len(Sess["history"]) = 20
    /\ Sess["history"][1] = obs.before["history"][2]
    /\ Sess["history"][20].role = "user"

\* C21: the draft accumulates the turns' fields: after a turn without
\* action the draft is the draft the turn found with the turn's non-null
\* fields added (so turns with disjoint non-null keys leave the union of
\* their fields, in whatever order they come), and the create call of a
\* create turn receives every field gathered in the earlier turns together
\* with the turn's own non-null fields.
C21_CreateReceivesAccumulatedFields ==
    /\ (Finished /\ obs.result.action = Null) =>
          Sess["pending_data"] = MergedDraft
    /\ (Finished /\ obs.result.action = "create") =>
          \A i \in 1..Len(obs.calls) :
              obs.calls[i].op = "create" =>
                  \A k \in DOMAIN MergedDraft \cap DOMAIN obs.calls[i].arg :
                      obs.calls[i].arg[k] = MergedDraft[k]

\* C22: a failure is local to its message: when handle_message ends for a
\* message of a delivery, with a reply or with an error, the messages the
\* delivery still carries are left to be processed.
C22_FailureLocalToMessage ==
    [][\A t \in DOMAIN th :
          (th[t].pc \in InTurn /\ th'[t].pc \in {"idle", "loop"}) =>
              /\ th'[t].batch = Tail(th[t].batch)
              /\ Tail(th[t].batch) # <<>> => th'[t].pc = "loop"]_vars

\* C23: every Trigger call a turn makes carries an id the Directory gave to
\* a record it created; a turn calls the Trigger only right after a create
\* call of its own that succeeded, at most once, and with the identifier of
\* the record that create returned (the record now last in known_kids).  When the
\* Trigger fails the turn still ends as after a successful create: the record
\* is in known_kids, the draft and pending_needs are empty, and the reply is
\* the extractor's reply followed by the manage link, with no error text.
C23_TriggerFollowsSuccessfulCreate ==
    /\ \A f \in fired : f.by = "turn" => (3 <= f.id /\ f.id < next_id)
    /\ Finished =>
            /\ \A j \in 1..Len(obs.calls) :
                  obs.calls[j].op = "trigger" =>
                      /\ j > 1
                      /\ obs.calls[j - 1].op = "create"
                      /\ obs.calls[j - 1].res = "ok"
                      /\ \A k \in 1..Len(obs.calls) :
                            obs.calls[k].op = "trigger" => k = j
                      /\ Sess["known_kids"] # <<>>
                      /\ Get(Sess["known_kids"][Len(Sess["known_kids"])], "id")
                            = obs.calls[j].arg
                      /\ \A i \in 1..(Len(Sess["known_kids"]) - 1) :
                            "id" \in DOMAIN Sess["known_kids"][i] =>
                                Sess["known_kids"][i].id # obs.calls[j].arg
            /\ Made("trigger", "fail") =>
                  /\ obs.kind = "replied"
                  /\ obs.reply = <<obs.result.reply, MANAGE_LINK>>
                  /\ Sess["pending_data"] = EmptyDict
                  /\ Sess["pending_needs"] = <<>>
                  /\ Len(Sess["known_kids"]) = Len(obs.parsed["known_kids"]) + 1

\* A turn whose create succeeded and whose Trigger call failed.
C23_Witness ==
    /\ Finished
    /\ Made("create", "ok")
    /\ Made("trigger", "fail")

\* C24: in every turn, whatever the number of turns the session has had, the
\* messages handed to the extractor start with a user entry and no two
\* neighbouring entries have the same role.
C24_ExtractorMessagesAlternate ==
    Begun =>
        /\ ExtractorMessages[1].role = "user"
        /\ \A i \in 1..(Len(ExtractorMessages) - 1) :
              ExtractorMessages[i].role # ExtractorMessages[i + 1].role

\* C25: while a message with an id is inside handle_message its id is in
\* processed_messages with the clock reading of its admission; and when the
\* last admitted message of an id raised before a reply was sent, a message
\* with that id read less than DEDUP_TTL after it is dropped (or skipped,
\* when it is not a text message): handle_message is not run again, no call
\* is made and nothing is sent.
C25_FailedTurnNotRetried ==
    /\ \A t \in DOMAIN th :
          (th[t].pc \in InTurn /\ Head(th[t].batch).id # "") =>
              /\ Head(th[t].batch).id \in DOMAIN processed_messages
              /\ processed_messages[Head(th[t].batch).id] = th[t].now
    /\ (/\ obs.msg_id \in DOMAIN obs.failed
        /\ obs.time - obs.failed[obs.msg_id] < DEDUP_TTL) =>
              /\ obs.kind \in {"dropped", "skipped"}
              /\ obs.calls = <<>>
              /\ obs.reply = <<>>

\* A text message dropped less than DEDUP_TTL after the admitted message of
\* the same id raised.
C25_Witness ==
    /\ obs.kind = "dropped"
    /\ obs.msg_id \in DOMAIN obs.failed
    /\ obs.time - obs.failed[obs.msg_id] < DEDUP_TTL

====
